---- MODULE Spec2Model ----
(***************************************************************************)
(* Trie autocomplete demo (zekeisaac.github.io).                           *)
(*                                                                         *)
(* The repository holds two copies of the demo script: src/trie-demo.js    *)
(* and src/unnamed/part_000.  The page loads one of them; the variable     *)
(* `script` records which.  Strings are sequences of one-character         *)
(* strings.  A trie node is identified by the character path from the      *)
(* root (the trie is a tree), so the trie is a function from paths to      *)
(* node records; the field `children` of a node holds the keys of its      *)
(* children object in property order (insertion order: every key of the    *)
(* model is a letter, never an integer index).  The drawing is the         *)
(* position list of the latest drawTrieSVG call, nodeElementsMap and the   *)
(* number of pending setTimeout callbacks.  Three specifications: TrieSpec *)
(* (the Trie class on its own), LayoutSpec (drawTrieSVG on its own) and    *)
(* Spec (the page and its listeners).                                      *)
(***************************************************************************)
EXTENDS Integers, Sequences, FiniteSets, TLC

VARIABLES
    script,         \* which copy of the script the page runs
    readyState,     \* document.readyState
    trie,           \* const trie = new Trie(): path -> TrieNode
    inputValue,     \* input.value
    suggestions,    \* the <li> children of #suggestions, in order
    selectedIndex,  \* let selectedIndex
    docClick,       \* number of click listeners registered on document
    words,          \* the words passed to Trie.insert so far, in call order
    drawnPositions, \* const positions of the latest drawTrieSVG call
    svg,            \* #trie-svg: its viewBox and the circles appended to it
    nodeElementsMap, \* const nodeElementsMap: node -> what is drawn for it
    timers,         \* number of setTimeout callbacks that are pending
    thrown,         \* the errors thrown while the last event was handled
    last            \* history: the call or listener that ran last, its inputs

vars == <<script, readyState, trie, inputValue, suggestions, selectedIndex, docClick,
          words, drawnPositions, svg, nodeElementsMap, timers, thrown,
          last>>

\* the drawing: what drawTrieSVG and the highlight passes write
drawing == <<drawnPositions, svg, nodeElementsMap, timers>>

-----------------------------------------------------------------------------
(* Bounds of the model *)

MaxInserts == 2     \* insert calls on one trie
MaxWeight == 1      \* selections of words on one trie
MaxWords == 3       \* length of the word list the page loads

(* Program constants *)

TopN == 10          \* .slice(0, 10) of the input listener

Scripts == {"trie-demo.js", "part_000"}

-----------------------------------------------------------------------------
(* Strings *)

Range(s) == {s[i] : i \in DOMAIN s}

\* String.prototype.toLowerCase on one character of the model's alphabet
LowerChar(c) ==
    CASE c = "A" -> "a"
      [] c = "B" -> "b"
      [] c = "N" -> "n"
      [] OTHER -> c

toLowerCase(s) == [i \in 1..Len(s) |-> LowerChar(s[i])]

\* String.prototype.trim: strips the white space at both ends
RECURSIVE trim(_)
trim(s) ==
    IF s = <<>> THEN s
    ELSE IF Head(s) = " " THEN trim(Tail(s))
    ELSE IF s[Len(s)] = " " THEN trim(SubSeq(s, 1, Len(s) - 1))
    ELSE s

\* String.prototype.slice(start) with 0 <= start
slice(s, start) == SubSeq(s, start + 1, Len(s))

\* Array.prototype.slice(0, end)
sliceTo(s, end) == SubSeq(s, 1, IF Len(s) < end THEN Len(s) ELSE end)

\* code unit order of the letters of the model (lower case only reaches it)
CharOrd(c) ==
    CASE c = "a" -> 1
      [] c = "b" -> 2
      [] c = "c" -> 3
      [] OTHER -> 4

\* String.prototype.localeCompare on lower-case letter strings: -1, 0 or 1
RECURSIVE localeCompare(_, _)
localeCompare(x, y) ==
    IF x = <<>> /\ y = <<>> THEN 0
    ELSE IF x = <<>> THEN -1
    ELSE IF y = <<>> THEN 1
    ELSE IF CharOrd(Head(x)) < CharOrd(Head(y)) THEN -1
    ELSE IF CharOrd(Head(x)) > CharOrd(Head(y)) THEN 1
    ELSE localeCompare(Tail(x), Tail(y))

IsPrefix(p, w) == Len(p) <= Len(w) /\ SubSeq(w, 1, Len(p)) = p

-----------------------------------------------------------------------------
(* Values whose type the code does not fix carry it: a string value, or    *)
(* the object literal {word, freq, weight} of _collect.                    *)

String(s) == [type |-> "string", chars |-> s]

typeof(v) == v.type

-----------------------------------------------------------------------------
(* class TrieNode, class Trie *)

\* new TrieNode()
TrieNode == [children |-> <<>>, isEnd |-> FALSE, freq |-> 0, weight |-> 0,
             path |-> <<>>]

\* new Trie(): the root alone
Trie == [p \in {<<>>} |-> TrieNode]

\* the not-found result of a walk (getNode's null): no path of a trie has a
\* key of more than one character, so it is no node
null == <<"null">>

\* node.children[char] is truthy: the node at path p has a child for char
HasChild(t, p, char) == char \in Range(t[p].children)

\* the loop shared by autocomplete, getNode and the highlight walks: follow
\* the characters of s from the node at path p; the path reached, or null
\* as soon as a child is missing
RECURSIVE walk(_, _, _)
walk(t, p, s) ==
    IF s = <<>> THEN p
    ELSE IF ~HasChild(t, p, Head(s)) THEN null
    ELSE walk(t, Append(p, Head(s)), Tail(s))

\* the loop of Trie.insert: from the node at path p, follow the characters
\* of s, creating each missing child with its path fragment
RECURSIVE insertLoop(_, _, _)
insertLoop(t, p, s) ==
    IF s = <<>> THEN t
    ELSE IF ~HasChild(t, p, Head(s))
    THEN insertLoop((Append(p, Head(s))
                       :> [TrieNode EXCEPT !.path = Append(p, Head(s))])
                    @@ [t EXCEPT ![p].children = Append(@, Head(s))],
                    Append(p, Head(s)), Tail(s))
    ELSE insertLoop(t, Append(p, Head(s)), Tail(s))

\* insert with node.freq = frequency in the place of node.freq += frequency
insertOverwrites(t, word, frequency) ==
    LET lw == toLowerCase(word)
        t1 == insertLoop(t, <<>>, lw)
    IN [t1 EXCEPT ![lw] = [@ EXCEPT !.isEnd = TRUE,
                                    !.freq = frequency,
                                    !.path = word]]

\* Trie.insert(word, frequency): the terminal node gets the word as passed
\* (not case-folded) as its path
insert(t, word, frequency) ==
    LET lw == toLowerCase(word)
        t1 == insertLoop(t, <<>>, lw)
    IN [t1 EXCEPT ![lw] = [@ EXCEPT !.isEnd = TRUE,
                                    !.freq = @ + frequency,
                                    !.path = word]]

\* Trie._collect(node, prefix): the node is the one at path prefix
RECURSIVE _collect(_, _)
RECURSIVE collectChildren(_, _, _)
collectChildren(t, prefix, keys) ==
    IF keys = <<>> THEN <<>>
    ELSE _collect(t, Append(prefix, Head(keys)))
           \o collectChildren(t, prefix, Tail(keys))

\* _collect without the push of the node's own word
_collectSkipsNode(t, prefix) ==
    collectChildren(t, prefix, t[prefix].children)

_collect(t, prefix) ==
    (IF t[prefix].isEnd
     THEN <<[type |-> "object", word |-> prefix, freq |-> t[prefix].freq,
             weight |-> t[prefix].weight]>>
     ELSE <<>>)
    \o collectChildren(t, prefix, t[prefix].children)

\* Array.prototype.sort with the comparator cmp, a function of the pairs of
\* elements: a stable sort, so the element at index i lands after the
\* elements that compare before it and after the earlier elements that
\* compare equal to it
sort(s, cmp) ==
    LET rank(i) == Cardinality({j \in 1..Len(s) :
                       \/ cmp[<<s[j], s[i]>>] < 0
                       \/ cmp[<<s[j], s[i]>>] = 0 /\ j < i}) + 1
    IN [k \in 1..Len(s) |-> s[CHOOSE i \in 1..Len(s) : rank(i) = k]]

\* the comparator with its operands exchanged: ascending score
compareAscending(a, b) == (a.freq + a.weight) - (b.freq + b.weight)

\* x || y on numbers: y when x is 0 (or NaN), else x
OrElse(x, y) == IF x # 0 THEN x ELSE y

\* the comparator of src/trie-demo.js:48,
\*   (b.freq + (b.weight||0)) - (a.freq + a.weight||0)
\* where a.freq + a.weight||0 is (a.freq + a.weight) || 0: the score
\* difference and nothing else.  The weights are numbers, so b.weight||0 is
\* b.weight
compare(a, b) ==
    (b.freq + OrElse(b.weight, 0)) - OrElse(a.freq + a.weight, 0)

\* the comparator of src/unnamed/part_000:47: the score difference, or for
\* equal scores the order of the words
compareP0(a, b) ==
    OrElse((b.freq + b.weight) - (a.freq + a.weight),
           localeCompare(a.word, b.word))

\* Trie.autocomplete(prefix) of src/trie-demo.js.  The return statement is
\*   return <sorted array> || a.word.localeCompare(b.word).map(x => x.word)
\* and an array is truthy, so the right operand is never evaluated: the
\* result is the sorted array of {word, freq, weight} objects
autocomplete(t, prefix) ==
    LET lp == toLowerCase(prefix)
    IN IF walk(t, <<>>, lp) = null THEN <<>>
       ELSE LET c == _collect(t, lp)
            IN sort(c, [p \in Range(c) \X Range(c) |-> compare(p[1], p[2])])

\* Trie.autocomplete(prefix) of src/unnamed/part_000: sorted, then mapped to
\* the words
autocompleteP0(t, prefix) ==
    LET lp == toLowerCase(prefix)
        c == IF walk(t, <<>>, lp) = null THEN <<>> ELSE _collect(t, lp)
        sorted == sort(c, [p \in Range(c) \X Range(c) |->
                              compareP0(p[1], p[2])])
    IN [i \in 1..Len(sorted) |-> String(sorted[i].word)]

\* trie.autocomplete(prefix) of the running script
Autocomplete(sc, t, prefix) ==
    IF sc = "trie-demo.js" THEN autocomplete(t, prefix)
    ELSE autocompleteP0(t, prefix)

\* Trie.getNode(word): the path of the node, or null
getNode(t, word) == walk(t, <<>>, toLowerCase(word))

\* the weight increment of a selection (src/trie-demo.js:183-184,
\* src/unnamed/part_000:175-176): the node getNode finds, if any, gains 1
boost(t, word) ==
    LET node == getNode(t, word)
    IN IF node # null THEN [t EXCEPT ![node].weight = @ + 1] ELSE t

\* the sum of the weights of the nodes: the number of selections so far
TotalWeight(t) ==
    LET RECURSIVE sum(_)
        sum(S) == IF S = {} THEN 0
                  ELSE LET p == CHOOSE q \in S : TRUE
                       IN t[p].weight + sum(S \ {p})
    IN sum(DOMAIN t)

-----------------------------------------------------------------------------
(* drawTrieSVG: the layout of the nodes.  A position holds the node (its   *)
(* path), x, depth and the letter of the edge into the node ("" for the    *)
(* root).                                                                  *)

nodeRadius == 18
horizontalSpacing == 70
verticalSpacing == 70

\* Array.prototype.sort() without comparator on one-character keys: the
\* order of the code units
sortKeys(keys) ==
    sort(keys, [p \in Range(keys) \X Range(keys) |->
                   CharOrd(p[1]) - CharOrd(p[2])])

\* a layout that pushes no position for a node without children
layoutSkipsLeaf(t, node, depth, x, parentLetter) ==
    [positions |-> <<>>, width |-> 1]

\* a layout that places the node alone, offset by the weights of the trie
layoutByWeight(t, node, depth, x, parentLetter) ==
    [positions |-> <<[node |-> node, x |-> x + 70 * TotalWeight(t),
                      depth |-> depth, letter |-> parentLetter]>>,
     width |-> 1]

\* a layout that does not descend into the children of the node
layoutNoChildren(t, node, depth, x, parentLetter) ==
    [positions |-> <<[node |-> node, x |-> x, depth |-> depth,
                      letter |-> parentLetter]>>,
     width |-> 1]

\* layout(node, depth, x, parentLetter) of src/trie-demo.js: the positions
\* of the subtree, children first, and the width of the subtree in leaves.
\* totalWidth * 70 - 70 is even, so the division by 2 is exact
RECURSIVE layout(_, _, _, _, _)
layout(t, node, depth, x, parentLetter) ==
    LET keys == sortKeys(t[node].children)
        \* keys.forEach from the i-th key on, with childX as it stands
        RECURSIVE forEach(_, _)
        forEach(i, childX) ==
            IF i > Len(keys) THEN [positions |-> <<>>, width |-> 0]
            ELSE LET c == layout(t, Append(node, keys[i]), depth + 1,
                                 childX, keys[i])
                     rest == forEach(i + 1, childX + c.width * 70)
                 IN [positions |-> c.positions \o rest.positions,
                     width |-> c.width + rest.width]
    IN IF Len(keys) = 0
       THEN [positions |-> <<[node |-> node, x |-> x, depth |-> depth,
                              letter |-> parentLetter]>>,
             width |-> 1]
       ELSE LET r == forEach(1, x)
                mid == x + (r.width * 70 - 70) \div 2
            IN [positions |-> Append(r.positions,
                                     [node |-> node, x |-> mid,
                                      depth |-> depth,
                                      letter |-> parentLetter]),
                width |-> r.width]

\* layout(node, depth, x, parentLetter, positions) of src/unnamed/part_000:
\* the positions array with the subtree pushed onto it; every child advances
\* childX by horizontalSpacing.  startX + childX - horizontalSpacing is even
\* (x is a multiple of horizontalSpacing), so the division by 2 is exact
RECURSIVE layoutP0(_, _, _, _, _, _)
layoutP0(t, node, depth, x, parentLetter, positions) ==
    LET keys == sortKeys(t[node].children)
        startX == x
        RECURSIVE forEach(_, _, _)
        forEach(i, childX, acc) ==
            IF i > Len(keys) THEN [positions |-> acc, childX |-> childX]
            ELSE forEach(i + 1, childX + horizontalSpacing,
                         layoutP0(t, Append(node, keys[i]), depth + 1,
                                  childX, keys[i], acc))
    IN IF Len(keys) = 0
       THEN Append(positions, [node |-> node, x |-> x, depth |-> depth,
                               letter |-> parentLetter])
       ELSE LET r == forEach(1, x, positions)
                midX == (startX + r.childX - horizontalSpacing) \div 2
            IN Append(r.positions, [node |-> node, x |-> midX,
                                    depth |-> depth,
                                    letter |-> parentLetter])

\* a layout of either script that gives every child one slot, whatever the
\* width of its subtree
LayoutOneSlotPerChild(sc, t) == layoutP0(t, <<>>, 0, 0, "", <<>>)

\* const positions = layout(trie.root) of the running script
Layout(sc, t) ==
    IF sc = "trie-demo.js" THEN layout(t, <<>>, 0, 0, "").positions
    ELSE layoutP0(t, <<>>, 0, 0, "", <<>>)

-----------------------------------------------------------------------------
(* drawTrieSVG: the elements.  nodeElementsMap maps a node to what is      *)
(* drawn for it: the circle's r and fill and whether it carries the class  *)
(* pulse-highlight; whether parentLine is a line (it is null for the root) *)
(* and, if so, the line's stroke and whether it carries the class          *)
(* active-highlight.                                                       *)

EndFill == "#4da6ff"
NonEndFill == "#11141a"
BaseStroke == "#4da6ff"

Max(a, b) == IF a >= b THEN a ELSE b

\* the radius of a circle of src/trie-demo.js (lines 195 and 326)
Radius(weight) == Max(10, nodeRadius + weight * 2)

\* circle.setAttribute('fill', node.isEnd ? '#4da6ff' : '#11141a')
BaseFill(t, node) == IF t[node].isEnd THEN EndFill ELSE NonEndFill

\* the entry nodeElementsMap.set(node, { circle, parentLine }) of
\* src/trie-demo.js: every node but the root is the child of a position, so
\* it has its parent line
Element(t, node) ==
    [r |-> Radius(t[node].weight), fill |-> BaseFill(t, node),
     pulse |-> FALSE, line |-> node # <<>>,
     stroke |-> IF node # <<>> THEN BaseStroke ELSE "",
     active |-> FALSE]

\* the radius of a circle of src/unnamed/part_000 (line 301)
RadiusP0(weight) == nodeRadius + weight * 2

\* Math.min(...xs), Math.max(...xs) of a list of numbers that is not empty
MinOf(xs) == CHOOSE m \in Range(xs) : \A v \in Range(xs) : m <= v
MaxOf(xs) == CHOOSE m \in Range(xs) : \A v \in Range(xs) : m >= v

\* the viewBox attribute `${minX - pad} 0 ${svgWidth} ${svgHeight}` as the
\* tuple of its four numbers.  Every x of a layout is an integer, and
\* Math.ceil of an integer is that integer
viewBox(positions) ==
    LET xs == [i \in DOMAIN positions |-> positions[i].x]
        depths == [i \in DOMAIN positions |-> positions[i].depth]
        minX == MinOf(xs)
        maxX == MaxOf(xs)
        maxDepth == MaxOf(depths)
        pad == nodeRadius * 3
        svgWidth == Max(800, maxX - minX + pad * 2)
        svgHeight == (maxDepth + 1) * verticalSpacing + pad
    IN <<minX - pad, 0, svgWidth, svgHeight>>

\* the svg before any drawing: no viewBox, no circle
EmptySvg == [viewBox |-> <<>>, circles |-> <<>>]

\* the circle that 'Draw nodes' appends to the svg for a position: its node
\* reference, cx, cy, r
Circle(sc, t, pos) ==
    [node |-> pos.node, cx |-> pos.x, cy |-> pos.depth * verticalSpacing,
     r |-> IF sc = "trie-demo.js" THEN Radius(t[pos.node].weight)
           ELSE RadiusP0(t[pos.node].weight)]

\* drawTrieSVG(trie, 'trie-svg'), the svg element being in the page: the
\* positions, the svg as drawn (the circles in the order appended), the new
\* nodeElementsMap and the error thrown, if any.  With an empty position
\* list the fallback branch runs, which sets no viewBox and whose
\* placeholder.setAttribute('No nodes to render') lacks its second argument:
\* a TypeError.  In src/unnamed/part_000 the first
\* nodeElementsMap.set(node, { circle, parentLine }) reads parentLine, which
\* is declared nowhere: a ReferenceError, with the map just cleared and the
\* circle of the first position alone appended
drawTrieSVG(sc, t) ==
    LET positions == Layout(sc, t)
    IN IF Len(positions) = 0
       THEN [positions |-> positions, svg |-> EmptySvg, map |-> <<>>,
             thrown |-> "TypeError"]
       ELSE IF sc = "trie-demo.js"
       THEN [positions |-> positions,
             svg |-> [viewBox |-> viewBox(positions),
                      circles |-> [i \in DOMAIN positions |->
                                      Circle(sc, t, positions[i])]],
             map |-> [node \in {positions[i].node : i \in DOMAIN positions}
                         |-> Element(t, node)],
             thrown |-> ""]
       ELSE [positions |-> positions,
             svg |-> [viewBox |-> viewBox(positions),
                      circles |-> <<Circle(sc, t, positions[1])>>],
             map |-> <<>>,
             thrown |-> "ReferenceError"]

\* getAccentColor() reads the identifier documentElement, which neither
\* script declares and which is no property of window: a ReferenceError
getAccentColor == "ReferenceError"

\* the callback of both setTimeout calls: every circle of nodeElementsMap
\* loses the class pulse-highlight
removePulse(m) == [node \in DOMAIN m |-> [m[node] EXCEPT !.pulse = FALSE]]

\* highlightWordInSVG(word) of src/trie-demo.js: the new nodeElementsMap,
\* the error thrown, and whether setTimeout was reached (the return at a
\* missing child leaves before it).  The fills are not reset
highlightWordInSVG(t, m, word) ==
    LET accent == getAccentColor
        cleared == [node \in DOMAIN m |->
                       [m[node] EXCEPT !.pulse = FALSE, !.active = FALSE,
                                       !.stroke = IF m[node].line
                                                  THEN BaseStroke ELSE @]]
        RECURSIVE loop(_, _, _)
        loop(map, node, s) ==
            IF s = <<>> THEN [map |-> map, thrown |-> "", timer |-> TRUE]
            ELSE IF ~HasChild(t, node, Head(s))
            THEN [map |-> map, thrown |-> "", timer |-> FALSE]
            ELSE LET child == Append(node, Head(s))
                 IN loop(IF child \in DOMAIN map
                         THEN [map EXCEPT ![child] =
                                 [@ EXCEPT !.fill = accent, !.pulse = TRUE,
                                           !.stroke = IF map[child].line
                                                      THEN accent ELSE @,
                                           !.active = map[child].line]]
                         ELSE map,
                         child, Tail(s))
    IN IF accent = "ReferenceError"
       THEN [map |-> m, thrown |-> "ReferenceError", timer |-> FALSE]
       ELSE loop(cleared, <<>>, toLowerCase(word))

\* highlightPrefix(prefix) of src/trie-demo.js: fills and strokes reset to
\* the base colours, then the walk, which stops at a missing child; the
\* setTimeout call follows in either case
highlightPrefix(t, m, prefix) ==
    LET accent == getAccentColor
        reset == [node \in DOMAIN m |->
                     [m[node] EXCEPT !.fill = BaseFill(t, node),
                                     !.stroke = IF m[node].line
                                                THEN BaseStroke ELSE @]]
        RECURSIVE loop(_, _, _)
        loop(map, node, s) ==
            IF s = <<>> \/ ~HasChild(t, node, Head(s)) THEN map
            ELSE LET child == Append(node, Head(s))
                 IN loop(IF child \in DOMAIN map
                         THEN [map EXCEPT ![child] =
                                 [@ EXCEPT !.fill = accent, !.pulse = TRUE,
                                           !.stroke = IF map[child].line
                                                      THEN accent ELSE @]]
                         ELSE map,
                         child, Tail(s))
    IN IF accent = "ReferenceError"
       THEN [map |-> m, thrown |-> "ReferenceError", timer |-> FALSE]
       ELSE [map |-> loop(reset, <<>>, prefix), thrown |-> "",
             timer |-> TRUE]

\* highlightWordInSVG(word) of src/unnamed/part_000: the value stored for a
\* node is the object { circle, parentLine }, which has no classList, so a
\* node of the path that has an entry makes circle.classList.remove throw a
\* TypeError.  No setTimeout
highlightWordInSVGP0(t, m, word) ==
    LET RECURSIVE loop(_, _)
        loop(node, s) ==
            IF s = <<>> \/ ~HasChild(t, node, Head(s)) THEN ""
            ELSE IF Append(node, Head(s)) \in DOMAIN m THEN "TypeError"
            ELSE loop(Append(node, Head(s)), Tail(s))
    IN [map |-> m, thrown |-> loop(<<>>, toLowerCase(word)),
        timer |-> FALSE]

\* the second 'input' listener of src/unnamed/part_000: the reset calls
\* circle.setAttribute on the stored object { circle, parentLine }, a
\* TypeError if the map has an entry; with an empty map the walk finds no
\* nodeData and changes nothing
highlightPrefixP0(t, m, query) ==
    [map |-> m, thrown |-> IF DOMAIN m # {} THEN "TypeError" ELSE "",
     timer |-> FALSE]

\* the highlight pass of the second 'input' listener of the running script
HighlightPrefix(sc, t, m, query) ==
    IF sc = "trie-demo.js" THEN highlightPrefix(t, m, query)
    ELSE highlightPrefixP0(t, m, query)

\* highlightWordInSVG(word) of the running script
HighlightWordInSVG(sc, t, m, word) ==
    IF sc = "trie-demo.js" THEN highlightWordInSVG(t, m, word)
    ELSE highlightWordInSVGP0(t, m, word)

\* the errors thrown by the listeners of one event, as a set
Errors(e1, e2) == {e1, e2} \ {""}

-----------------------------------------------------------------------------
(* The Trie class used on its own: any sequence of insert calls and of     *)
(* selections, from new Trie().                                            *)

TrieWords == {<<>>, <<"b">>, <<"a">>, <<"A", "b">>, <<"a", "b">>}
Frequencies == {1, 2}

NoEvent == [op |-> "none", word |-> <<>>, arg |-> 0, key |-> ""]

TrieInit ==
    /\ script \in Scripts
    /\ readyState = "complete"
    /\ trie = Trie
    /\ inputValue = <<>>
    /\ suggestions = <<>>
    /\ selectedIndex = -1
    /\ docClick = 0
    /\ words = <<>>
    /\ drawnPositions = <<>>
    /\ svg = EmptySvg
    /\ nodeElementsMap = <<>>
    /\ timers = 0
    /\ thrown = {}
    /\ last = NoEvent

Insert(word, frequency) ==
    /\ Len(words) < MaxInserts
    /\ trie' = insert(trie, word, frequency)
    /\ words' = Append(words, word)
    /\ last' = [op |-> "insert", word |-> word, arg |-> frequency, key |-> ""]
    /\ UNCHANGED <<script, readyState, inputValue, suggestions, selectedIndex, docClick,
                   drawing, thrown>>

Select(word) ==
    /\ TotalWeight(trie) < MaxWeight
    /\ trie' = boost(trie, word)
    /\ last' = [op |-> "select", word |-> word, arg |-> 0, key |-> ""]
    /\ UNCHANGED <<script, readyState, inputValue, suggestions, selectedIndex, docClick,
                   words, drawing, thrown>>

TrieNext ==
    \/ \E word \in TrieWords, frequency \in Frequencies : Insert(word, frequency)
    \/ \E word \in TrieWords : Select(word)

TrieSpec == TrieInit /\ [][TrieNext]_vars

-----------------------------------------------------------------------------
(* drawTrieSVG used on its own: a trie loaded from a word list is drawn,   *)
(* any number of times, between selections of its words.                   *)

MaxLayoutWords == 4     \* length of the word list that is drawn

LayoutWords == {<<"b">>, <<"a", "a">>, <<"a", "b">>, <<"a", "c">>}

RECURSIVE SeqsUpTo(_, _)
SeqsUpTo(S, n) ==
    IF n = 0 THEN {<<>>}
    ELSE LET shorter == SeqsUpTo(S, n - 1)
         IN shorter \cup {Append(l, x) : l \in shorter, x \in S}

\* words.forEach(w => trie.insert(w)): every word with the default frequency
RECURSIVE load(_, _)
load(t, list) ==
    IF list = <<>> THEN t ELSE load(insert(t, Head(list), 1), Tail(list))

LayoutInit ==
    /\ script \in Scripts
    /\ readyState = "complete"
    /\ words \in SeqsUpTo(LayoutWords, MaxLayoutWords)
    /\ trie = load(Trie, words)
    /\ inputValue = <<>>
    /\ suggestions = <<>>
    /\ selectedIndex = -1
    /\ docClick = 0
    /\ drawnPositions = <<>>
    /\ svg = EmptySvg
    /\ nodeElementsMap = <<>>
    /\ timers = 0
    /\ thrown = {}
    /\ last = NoEvent

\* a call drawTrieSVG(trie, 'trie-svg')
DrawTrie ==
    /\ LET d == drawTrieSVG(script, trie)
       IN /\ drawnPositions' = d.positions
          /\ svg' = d.svg
          /\ nodeElementsMap' = d.map
          /\ thrown' = Errors(d.thrown, "")
    /\ last' = [op |-> "draw", word |-> <<>>, arg |-> 0, key |-> ""]
    /\ UNCHANGED <<script, readyState, trie, inputValue, suggestions, selectedIndex,
                   docClick, words, timers>>

LayoutNext ==
    \/ DrawTrie
    \/ \E word \in LayoutWords : Select(word)

LayoutSpec == LayoutInit /\ [][LayoutNext]_vars

-----------------------------------------------------------------------------
(* The page: the trie is loaded from the word list, then the listeners     *)
(* handle one event at a time.                                             *)

PageWords == {<<"a">>, <<"a", "b">>, <<"a", "a">>}
InputTexts == {<<>>, <<"a">>, <<"a", "b">>, <<"b">>, <<" ", "A">>}
Keys == {"ArrowDown", "ArrowUp", "Enter", "Escape"}

\* the text of the "No matches found" item
NoMatchesText == <<"N", "o", " ", "m", "a", "t", "c", "h", "e", "s", " ",
                   "f", "o", "u", "n", "d">>

\* a word list with a word that spells the text of the "No matches found"
\* item
NoMatchWords == {<<"a">>, toLowerCase(NoMatchesText)}

\* the li of an empty result: no click listener
NoResultsItem == [className |-> "no-results", innerText |-> NoMatchesText,
                  word |-> <<>>, onclick |-> FALSE]

\* the li of one match: innerHTML <strong>query</strong> + word.slice(...)
\* and a click listener that holds the word
SuggestionItem(query, word) ==
    [className |-> "", innerText |-> query \o slice(word.chars, Len(query)),
     word |-> word.chars, onclick |-> TRUE]

\* matches.forEach(word => ...): word.slice is a method of strings only, so
\* the first element that is no string throws a TypeError, which ends the
\* loop and the listener; the items appended before it stay
RECURSIVE StringsBefore(_)
StringsBefore(matches) ==
    IF matches = <<>> \/ typeof(Head(matches)) # "string" THEN 0
    ELSE 1 + StringsBefore(Tail(matches))

\* const query = input.value.trim().toLowerCase()
Query(value) == toLowerCase(trim(value))

\* the first 'input' listener: the new children of #suggestions, whether
\* the listener ran to its end, and the error that ended it, if any
inputListener(sc, t, value) ==
    LET query == Query(value)
        matches == sliceTo(Autocomplete(sc, t, query), TopN)
        k == StringsBefore(matches)
    IN IF query = <<>>
       THEN [items |-> <<>>, completed |-> FALSE, thrown |-> ""]
       ELSE IF Len(matches) = 0
            THEN [items |-> <<NoResultsItem>>, completed |-> FALSE,
                  thrown |-> ""]
            ELSE [items |-> [i \in 1..k |-> SuggestionItem(query, matches[i])],
                  completed |-> k = Len(matches),
                  thrown |-> IF k = Len(matches) THEN "" ELSE "TypeError"]

\* a remainder that clamps to the last index where % wraps around
JsRemClamps(a, n) == IF a >= n THEN n - 1 ELSE IF a < 0 THEN 0 ELSE a

\* the remainder operator % of JavaScript: the sign of the dividend
JsRem(a, n) == IF a >= 0 THEN a % n ELSE -((-a) % n)

\* item.classList.toggle("active", force) on the class attribute of an li
toggleActive(className, force) ==
    IF force
    THEN IF className = "" THEN "active"
         ELSE IF className = "no-results" THEN "no-results active"
         ELSE className
    ELSE IF className = "active" THEN ""
         ELSE IF className = "no-results active" THEN "no-results"
         ELSE className

\* items.forEach((item, i) => item.classList.toggle("active", i === index))
toggleItems(items, index) ==
    [k \in DOMAIN items |->
        [items[k] EXCEPT !.className = toggleActive(@, k - 1 = index)]]

\* the page once the script has run to its end: the word list is inserted
\* and the listeners are registered.  src/unnamed/part_000 has called
\* drawTrieSVG(trie, 'trie-svg'); src/trie-demo.js has called it unless the
\* document was still loading, in which case it has registered a
\* DOMContentLoaded listener that will
PageLoaded ==
    /\ script \in Scripts
    /\ readyState \in {"loading", "complete"}
    /\ trie = load(Trie, words)
    /\ inputValue = <<>>
    /\ suggestions = <<>>
    /\ selectedIndex = -1
    /\ docClick = IF script = "part_000" THEN 1 ELSE 0
    /\ IF script = "trie-demo.js" /\ readyState = "loading"
       THEN /\ drawnPositions = <<>>
            /\ svg = EmptySvg
            /\ nodeElementsMap = <<>>
            /\ thrown = {}
       ELSE LET d == drawTrieSVG(script, trie)
            IN /\ drawnPositions = d.positions
               /\ svg = d.svg
               /\ nodeElementsMap = d.map
               /\ thrown = Errors(d.thrown, "")
    /\ timers = 0
    /\ last = NoEvent

\* the page of a word list of up to MaxWords words
Init ==
    /\ words \in SeqsUpTo(PageWords, MaxWords)
    /\ PageLoaded

\* the page of a word list that holds the text of the "No matches found"
\* item as a word
NoMatchInit ==
    /\ words \in SeqsUpTo(NoMatchWords, MaxWords)
    /\ PageLoaded

\* the document has been parsed: readyState becomes "interactive" and the
\* DOMContentLoaded listener that src/trie-demo.js registered draws the
\* trie; src/unnamed/part_000 registers none
DOMContentLoaded ==
    /\ readyState = "loading"
    /\ readyState' = "interactive"
    /\ IF script = "trie-demo.js"
       THEN LET d == drawTrieSVG(script, trie)
            IN /\ drawnPositions' = d.positions
               /\ svg' = d.svg
               /\ nodeElementsMap' = d.map
               /\ thrown' = Errors(d.thrown, "")
       ELSE /\ thrown' = {}
            /\ UNCHANGED <<drawnPositions, svg, nodeElementsMap>>
    /\ last' = [op |-> "DOMContentLoaded", word |-> <<>>, arg |-> 0,
                key |-> ""]
    /\ UNCHANGED <<script, trie, inputValue, suggestions, selectedIndex,
                   docClick, words, timers>>

\* the user edits the text field: both 'input' listeners run, the second
\* one (the live-prefix highlight) whatever became of the first
InputEvent(text) ==
    /\ text # inputValue
    /\ inputValue' = text
    /\ LET r == inputListener(script, trie, text)
           h == HighlightPrefix(script, trie, nodeElementsMap, Query(text))
       IN /\ suggestions' = r.items
          /\ docClick' = IF script = "trie-demo.js" /\ r.completed
                         THEN docClick + 1 ELSE docClick
          /\ nodeElementsMap' = h.map
          /\ timers' = IF h.timer THEN timers + 1 ELSE timers
          /\ thrown' = Errors(r.thrown, h.thrown)
    /\ last' = [op |-> "input", word |-> text, arg |-> 0, key |-> ""]
    /\ UNCHANGED <<script, readyState, trie, selectedIndex, words,
                   drawnPositions, svg>>

\* a keydown listener that closes the list on every key
KeyDownClosesList(key) ==
    /\ last' = [op |-> "keydown", word |-> <<>>, arg |-> selectedIndex,
                key |-> key]
    /\ suggestions' = <<>>
    /\ selectedIndex' = -1
    /\ thrown' = {}
    /\ UNCHANGED <<script, readyState, words, docClick, trie, inputValue, drawing>>

\* the 'keydown' listener
KeyDown(key) ==
    LET n == Len(suggestions)
        item == suggestions[selectedIndex + 1]
        commits == n > 0 /\ key = "Enter" /\ selectedIndex \in 0..(n - 1)
    IN /\ last' = [op |-> "keydown",
                   word |-> IF commits THEN item.innerText ELSE <<>>,
                   arg |-> selectedIndex, key |-> key]
       /\ UNCHANGED <<script, readyState, words, docClick>>
       /\ (commits /\ script = "trie-demo.js"
             /\ getNode(trie, item.innerText) # null)
          => TotalWeight(trie) < MaxWeight
       /\ IF n = 0
          THEN /\ thrown' = {}
               /\ UNCHANGED <<trie, inputValue, suggestions, selectedIndex,
                              drawing>>
          ELSE IF key = "ArrowDown"
          THEN /\ selectedIndex' = JsRem(selectedIndex + 1, n)
               /\ suggestions' = toggleItems(suggestions, selectedIndex')
               /\ thrown' = {}
               /\ UNCHANGED <<trie, inputValue, drawing>>
          ELSE IF key = "ArrowUp"
          THEN /\ selectedIndex' = JsRem(selectedIndex - 1 + n, n)
               /\ suggestions' = toggleItems(suggestions, selectedIndex')
               /\ thrown' = {}
               /\ UNCHANGED <<trie, inputValue, drawing>>
          ELSE IF key = "Enter" /\ selectedIndex >= 0
          THEN IF selectedIndex >= n
               THEN \* items[selectedIndex] is undefined: TypeError
                    /\ thrown' = {"TypeError"}
                    /\ UNCHANGED <<trie, inputValue, suggestions,
                                   selectedIndex, drawing>>
               ELSE IF script = "trie-demo.js"
               THEN LET chosen == item.innerText
                        t1 == boost(trie, chosen)
                        h == highlightWordInSVG(t1, nodeElementsMap, chosen)
                        d == drawTrieSVG(script, t1)
                    IN /\ inputValue' = chosen
                       /\ suggestions' = <<>>
                       /\ trie' = t1
                       /\ timers' = IF h.timer THEN timers + 1 ELSE timers
                       /\ IF h.thrown # ""
                          THEN \* highlightWordInSVG threw: the listener ends
                               /\ nodeElementsMap' = h.map
                               /\ thrown' = {h.thrown}
                               /\ UNCHANGED <<drawnPositions, svg,
                                              selectedIndex>>
                          ELSE /\ nodeElementsMap' = d.map
                               /\ drawnPositions' = d.positions
                               /\ svg' = d.svg
                               /\ thrown' = Errors(d.thrown, "")
                               /\ selectedIndex' =
                                    IF d.thrown = "" THEN -1
                                    ELSE selectedIndex
               ELSE /\ inputValue' = item.innerText
                    /\ suggestions' = <<>>
                    /\ selectedIndex' = -1
                    /\ thrown' = {}
                    /\ UNCHANGED <<trie, drawing>>
          ELSE /\ thrown' = {}
               /\ UNCHANGED <<trie, inputValue, suggestions, selectedIndex,
                              drawing>>

\* the click listener of the i-th suggestion.  In src/trie-demo.js the
\* radii are set from the weights, then highlightWordInSVG runs; in
\* src/unnamed/part_000 highlightWordInSVG runs, then drawTrieSVG
ClickSuggestion(i) ==
    /\ i \in 1..Len(suggestions)
    /\ suggestions[i].onclick
    /\ TotalWeight(trie) < MaxWeight
    /\ LET word == suggestions[i].word
           t1 == boost(trie, word)
           resized == [node \in DOMAIN nodeElementsMap |->
                          [nodeElementsMap[node] EXCEPT
                              !.r = Radius(t1[node].weight)]]
           h == IF script = "trie-demo.js"
                THEN highlightWordInSVG(t1, resized, word)
                ELSE highlightWordInSVGP0(t1, nodeElementsMap, word)
           d == drawTrieSVG(script, t1)
           redraws == script = "part_000" /\ h.thrown = ""
       IN /\ trie' = t1
          /\ inputValue' = word
          /\ suggestions' = <<>>
          /\ timers' = IF h.timer THEN timers + 1 ELSE timers
          /\ nodeElementsMap' = IF redraws THEN d.map ELSE h.map
          /\ drawnPositions' = IF redraws THEN d.positions
                               ELSE drawnPositions
          /\ svg' = IF redraws THEN d.svg
                    ELSE IF script = "trie-demo.js"
                    THEN [svg EXCEPT !.circles =
                            [k \in DOMAIN svg.circles |->
                                [svg.circles[k] EXCEPT
                                    !.r = Radius(t1[svg.circles[k].node]
                                                   .weight)]]]
                    ELSE svg
          /\ thrown' = IF redraws THEN Errors(d.thrown, "")
                       ELSE Errors(h.thrown, "")
          /\ last' = [op |-> "click", word |-> word, arg |-> i - 1,
                      key |-> ""]
    /\ UNCHANGED <<script, readyState, selectedIndex, docClick, words>>

\* a click outside .autocomplete-box: every registered document listener
\* clears the list
ClickOutside ==
    /\ suggestions' = IF docClick > 0 THEN <<>> ELSE suggestions
    /\ thrown' = {}
    /\ last' = [op |-> "clickOutside", word |-> <<>>, arg |-> 0, key |-> ""]
    /\ UNCHANGED <<script, readyState, trie, inputValue, selectedIndex, docClick, words,
                   drawing>>

Next ==
    \/ \E text \in InputTexts : InputEvent(text)
    \/ \E key \in Keys : KeyDown(key)
    \/ \E i \in 1..TopN : ClickSuggestion(i)
    \/ ClickOutside
    \/ DOMContentLoaded

Spec == Init /\ [][Next]_vars

NoMatchSpec == NoMatchInit /\ [][Next]_vars

-----------------------------------------------------------------------------
(* What the claims speak of *)

\* the word an element of a result stands for
WordOf(v) == IF typeof(v) = "string" THEN v.chars ELSE v.word

\* the words of a result, in result order
ResultWords(sc, t, prefix) ==
    LET r == Autocomplete(sc, t, prefix)
    IN [i \in 1..Len(r) |-> WordOf(r[i])]

IndexOf(seq, x) == CHOOSE i \in 1..Len(seq) : seq[i] = x

Score(t, w) == t[w].freq + t[w].weight

\* the strings the claims query the trie with
Queries == {<<>>, <<"a">>, <<"b">>, <<"A">>, <<"B">>, <<"a", "a">>,
            <<"a", "b">>, <<"a", "B">>, <<"A", "a">>, <<"b", "a">>,
            <<"b", "b">>, <<"a", "b", "a">>, <<"c">>}

\* some word inserted so far starts with q, case folded
SomeWordStartsWith(q) ==
    \E i \in 1..Len(words) : IsPrefix(toLowerCase(q), toLowerCase(words[i]))

\* C1: after any sequence of insert calls, autocomplete(P) has an entry for
\* every inserted word W of which P is a prefix (both case folded), and
\* autocomplete(Q) is empty when Q is a prefix of no inserted word.
C1_PrefixCorrect ==
    \A q \in Queries :
        /\ \A i \in 1..Len(words) :
              IsPrefix(toLowerCase(q), toLowerCase(words[i]))
                 => toLowerCase(words[i]) \in Range(ResultWords(script, trie, q))
        /\ ~SomeWordStartsWith(q) => Autocomplete(script, trie, q) = <<>>

\* an upper-case word was inserted and is found by a proper prefix, by
\* itself and by an upper-case query, while another query finds nothing
C1_Witness ==
    /\ <<"A", "b">> \in Range(words)
    /\ <<"a", "b">> \in Range(ResultWords(script, trie, <<"a">>))
    /\ <<"a", "b">> \in Range(ResultWords(script, trie, <<"a", "B">>))
    /\ Len(ResultWords(script, trie, <<>>)) >= 2
    /\ Autocomplete(script, trie, <<"b">>) = <<>>

\* C2: for every trie state and every prefix, the result is sorted by
\* descending frequency + weight, and words of equal frequency + weight are
\* in ascending lexicographic order.
C2_RankingOrder ==
    \A q \in Queries :
        LET r == ResultWords(script, trie, q)
        IN \A i, j \in 1..Len(r) :
             i < j =>
               \/ Score(trie, r[i]) > Score(trie, r[j])
               \/ /\ Score(trie, r[i]) = Score(trie, r[j])
                  /\ localeCompare(r[i], r[j]) < 0

\* C3: every element autocomplete returns is a word string.
C3_ReturnsWordStrings ==
    \A q \in Queries :
        LET r == Autocomplete(script, trie, q)
        IN \A i \in 1..Len(r) : typeof(r[i]) = "string"

\* C5: a selection of a word w (its weight incremented, nothing else
\* changed) never moves w to a later position in the result of any prefix
\* that returned it.
C5_WeightMonotone ==
    [][last'.op = "select" =>
         \A q \in Queries :
            LET w == toLowerCase(last'.word)
                before == ResultWords(script, trie, q)
                after == ResultWords(script, trie', q)
            IN w \in Range(before) =>
                 /\ w \in Range(after)
                 /\ IndexOf(after, w) <= IndexOf(before, w)]_vars

\* the word selected last is first for the empty prefix, one point ahead
\* of a word that _collect reaches before it: the selection moved it up
C5_Witness ==
    /\ last.op = "select"
    /\ LET w == toLowerCase(last.word)
           r == ResultWords(script, trie, <<>>)
           c == _collect(trie, <<>>)
       IN /\ Len(r) >= 2
          /\ r[1] = w
          /\ Score(trie, r[1]) = Score(trie, r[2]) + 1
          /\ c[1].word = r[2]

\* C6: inserting a word that is already in the trie leaves the node set,
\* the child keys and every isEnd flag unchanged, adds the given frequency
\* to the terminal node's frequency and to no other, and autocomplete of
\* the word still has the word exactly once.
C6_InsertIdempotent ==
    [][(/\ last'.op = "insert"
        /\ Len(words') = Len(words) + 1
        /\ toLowerCase(last'.word) \in DOMAIN trie
        /\ trie[toLowerCase(last'.word)].isEnd) =>
         LET w == toLowerCase(last'.word)
             r == ResultWords(script, trie', w)
         IN /\ DOMAIN trie' = DOMAIN trie
            /\ \A p \in DOMAIN trie :
                  /\ trie'[p].children = trie[p].children
                  /\ trie'[p].isEnd = trie[p].isEnd
                  /\ trie'[p].weight = trie[p].weight
                  /\ trie'[p].freq =
                       trie[p].freq + (IF p = w THEN last'.arg ELSE 0)
            /\ Cardinality({i \in 1..Len(r) : r[i] = w}) = 1]_vars

\* the same word was inserted twice with the default frequency, the second
\* time in another letter case, and has frequency 2
C6_Witness ==
    /\ last.op = "insert"
    /\ last.arg = 1
    /\ words = <<<<"a", "b">>, <<"A", "b">>>>
    /\ trie[<<"a", "b">>].freq = 2
    /\ Len(ResultWords(script, trie, <<"a">>)) = 1

-----------------------------------------------------------------------------
(* The page's claims.  In `last`, arg is selectedIndex as the keydown      *)
(* listener found it (or the index of the clicked item), and word is the   *)
(* text the listener committed, if it committed one.                       *)

\* the inserted words that start with q, case folded
Matching(q) ==
    {toLowerCase(words[i]) : i \in {j \in 1..Len(words) :
                                      IsPrefix(q, toLowerCase(words[j]))}}

\* the words of S in ascending lexicographic order
LexSeq(S) ==
    LET pos(w) == Cardinality({v \in S : localeCompare(v, w) < 0}) + 1
    IN [k \in 1..Cardinality(S) |-> CHOOSE w \in S : pos(w) = k]

Texts(items) == [i \in 1..Len(items) |-> items[i].innerText]

\* this step is the commit key on the list item that selectedIndex names
EnterCommits ==
    /\ last'.op = "keydown"
    /\ last'.key = "Enter"
    /\ selectedIndex \in 0..(Len(suggestions) - 1)

\* this step commits the suggestion of word w, by click or by commit key
Commits(w) ==
    \/ /\ last'.op = "click"
       /\ last'.word = w
    \/ /\ EnterCommits
       /\ suggestions[selectedIndex + 1].onclick
       /\ suggestions[selectedIndex + 1].word = w

\* C4: when all words matching the query have the same score, the
\* suggestions are those words in lexicographic order; committing a
\* suggestion w of weight 0 (click or commit key) makes its weight 1; and
\* when one matching word has weight 1 and the others weight 0, all with the
\* same frequency, the query lists that word first and the others in
\* lexicographic order.
C4_EndToEnd ==
    [][/\ last'.op = "input" =>
            LET q == Query(inputValue')
                M == Matching(q)
            IN /\ (/\ q # <<>>
                   /\ M # {}
                   /\ \A v, w \in M : Score(trie, v) = Score(trie, w))
                    => Texts(suggestions') = LexSeq(M)
               /\ \A w \in M :
                    (/\ q # <<>>
                     /\ trie[w].weight = 1
                     /\ \A v \in M \ {w} : /\ trie[v].weight = 0
                                            /\ trie[v].freq = trie[w].freq)
                      => Texts(suggestions') = <<w>> \o LexSeq(M \ {w})
       /\ \A w \in DOMAIN trie :
            Commits(w) /\ trie[w].weight = 0 => trie'[w].weight = 1]_vars

\* C7: after every handled change of the input text, selectedIndex is -1.
C7_QueryResetsSelection ==
    last.op = "input" => selectedIndex = -1

\* the last step committed the suggestion of a word of the trie, by click or
\* by commit key
Committed ==
    /\ \/ last.op = "click"
       \/ last.op = "keydown" /\ last.key = "Enter"
    /\ last.word \in {toLowerCase(words[i]) : i \in 1..Len(words)}

\* C8: after a commit, by the commit key or by a click on a list item, the
\* suggestion list is empty and selectedIndex is -1.
C8_CommitOutcome ==
    Committed => suggestions = <<>> /\ selectedIndex = -1

\* C9: a commit of the suggestion of word w adds exactly 1 to the weight of
\* w's terminal node and changes no other weight; no step changes a
\* frequency, an isEnd flag or the shape; a step that is no commit changes
\* no weight.
C9_CommitChangesOneWeight ==
    [][/\ DOMAIN trie' = DOMAIN trie
       /\ \A p \in DOMAIN trie :
            /\ trie'[p].freq = trie[p].freq
            /\ trie'[p].isEnd = trie[p].isEnd
            /\ trie'[p].children = trie[p].children
            /\ trie'[p].weight =
                 trie[p].weight + (IF Commits(p) THEN 1 ELSE 0)]_vars

\* C10: with a list of n > 0 items, the advance key sets selectedIndex to
\* (i + 1) mod n and the retreat key to (i - 1 + n) mod n, both in 0..n-1
\* (from the last item to the first, from the first to the last, from none
\* to the first); with an empty list both leave selectedIndex unchanged.
C10_Navigation ==
    [][last'.op = "keydown" /\ last'.key \in {"ArrowDown", "ArrowUp"} =>
         LET n == Len(suggestions)
             i == selectedIndex
         IN IF n = 0 THEN selectedIndex' = i
            ELSE /\ selectedIndex' \in 0..(n - 1)
                 /\ Texts(suggestions') = Texts(suggestions)
                 /\ last'.key = "ArrowDown" =>
                      /\ selectedIndex' = (i + 1) % n
                      /\ i = n - 1 => selectedIndex' = 0
                      /\ i = -1 => selectedIndex' = 0
                 /\ last'.key = "ArrowUp" =>
                      /\ selectedIndex' = (i - 1 + n) % n
                      /\ i = 0 => selectedIndex' = n - 1]_vars

\* the advance key has just wrapped from the last of several items to the
\* first
C10_Witness ==
    /\ last.op = "keydown"
    /\ last.key = "ArrowDown"
    /\ Len(suggestions) >= 2
    /\ last.arg = Len(suggestions) - 1
    /\ selectedIndex = 0

\* C11: the commit key handled while selectedIndex is -1, or while the
\* suggestion list is empty, changes no weight (nor anything else of the
\* trie), not the list, not the input text, not selectedIndex, not the
\* drawing (fills, strokes, pulse classes, pending callbacks), and throws
\* nothing.
C11_CommitNoSelection ==
    [][(/\ last'.op = "keydown"
        /\ last'.key = "Enter"
        /\ (selectedIndex = -1 \/ suggestions = <<>>))
       => /\ UNCHANGED <<trie, suggestions, inputValue, selectedIndex,
                         drawing>>
          /\ thrown' = {}]_vars

\* the commit key has just been handled with a list shown and nothing
\* selected
C11_Witness ==
    /\ last.op = "keydown"
    /\ last.key = "Enter"
    /\ last.arg = -1
    /\ suggestions # <<>>

\* C12: a click outside the autocomplete box, in any state in which the
\* suggestion list has items, leaves the list empty and changes no weight
\* and no frequency (nothing of the trie).
C12_LossOfFocus ==
    [][(last'.op = "clickOutside" /\ suggestions # <<>>)
       => /\ suggestions' = <<>>
          /\ trie' = trie]_vars

\* C13: for every string s, getNode returns the terminal node of s (the
\* node at the case-folded path of s, an end node) when s case-folded is an
\* inserted word, and null when it is not, a proper prefix of inserted
\* words included.
C13_LookupDefensive ==
    \A s \in Queries :
        IF \E i \in DOMAIN words : toLowerCase(words[i]) = toLowerCase(s)
        THEN /\ getNode(trie, s) = toLowerCase(s)
             /\ trie[getNode(trie, s)].isEnd
        ELSE getNode(trie, s) = null

\* the nodes that are emphasized: a circle with another fill than its base
\* fill or with the class pulse-highlight
EmphasizedNodes ==
    {node \in DOMAIN nodeElementsMap :
        \/ nodeElementsMap[node].fill # BaseFill(trie, node)
        \/ nodeElementsMap[node].pulse}

\* the edges (named by the node they lead into) that are emphasized: a line
\* with another stroke than the base stroke or with the class
\* active-highlight
EmphasizedEdges ==
    {node \in DOMAIN nodeElementsMap :
        /\ nodeElementsMap[node].line
        /\ \/ nodeElementsMap[node].stroke # BaseStroke
           \/ nodeElementsMap[node].active}

\* the strings of the highlight passes that the listeners of the last event
\* called: the query of an 'input' event (live prefix), the word of a click,
\* the text committed by the commit key in src/trie-demo.js (selection)
HighlightPasses ==
    IF last.op = "input" THEN {Query(last.word)}
    ELSE IF last.op = "click" THEN {last.word}
    ELSE IF /\ last.op = "keydown"
            /\ last.word # <<>>
            /\ script = "trie-demo.js"
         THEN {last.word}
    ELSE {}

\* C14: after a highlight pass (live prefix or selection) for a string that
\* no inserted word starts with, no node and no edge is emphasized, and the
\* pass has thrown nothing.
C14_PathBreakSafety ==
    \A s \in HighlightPasses :
        ~SomeWordStartsWith(s)
        => /\ EmphasizedNodes = {}
           /\ EmphasizedEdges = {}
           /\ thrown = {}

\* the nodes whose circle has the accent fill: a fill that is neither of the
\* two base fills
AccentNodes ==
    {node \in DOMAIN nodeElementsMap :
        nodeElementsMap[node].fill \notin {EndFill, NonEndFill}}

\* the edges (named by the node they lead into) with the accent stroke
AccentEdges ==
    {node \in DOMAIN nodeElementsMap :
        nodeElementsMap[node].line /\ nodeElementsMap[node].stroke # BaseStroke}

\* the nodes other than the root on the path spelled by the longest prefix
\* of s that exists in the trie
PathNodes(s) == {node \in DOMAIN trie : node # <<>> /\ IsPrefix(node, s)}

\* C15: after the highlight pass of a query change to q, the nodes with the
\* accent fill are exactly the nodes other than the root on the path of the
\* longest prefix of q in the trie, the edges with the accent stroke are
\* exactly the edges into those nodes, and every other node has its base
\* fill and every other edge the base stroke (so nothing is emphasized for
\* the empty query).
C15_LivePrefixResult ==
    last.op = "input" =>
        LET path == PathNodes(Query(last.word))
        IN /\ AccentNodes = path
           /\ AccentEdges = path
           /\ \A node \in DOMAIN nodeElementsMap \ path :
                /\ nodeElementsMap[node].fill = BaseFill(trie, node)
                /\ nodeElementsMap[node].line
                     => nodeElementsMap[node].stroke = BaseStroke

\* C18: the positions (node, x, depth, letter) of a drawing are those that
\* the layout of the trie yields at any later time, whatever weights the
\* selections since have incremented: a second layout of the unchanged trie
\* is identical, and no weight changes the x or the depth of a node.
C18_LayoutShapeOnly ==
    drawnPositions # <<>> => drawnPositions = Layout(script, trie)

\* a trie of several nodes was drawn, then one of its words was selected
C18_Witness ==
    /\ last.op = "select"
    /\ TotalWeight(trie) > 0
    /\ Len(drawnPositions) >= 4

\* the node a position holds is a child of the same parent as another's
Siblings(p, q) ==
    /\ p.node # <<>>
    /\ q.node # <<>>
    /\ Len(p.node) = Len(q.node)
    /\ SubSeq(p.node, 1, Len(p.node) - 1) = SubSeq(q.node, 1, Len(q.node) - 1)

\* C19: in every layout, whatever the order of insertion, the x of the
\* children of a node strictly increase in the order of their edge
\* characters.
C19_SiblingOrder ==
    \A i, j \in DOMAIN drawnPositions :
        LET p == drawnPositions[i]
            q == drawnPositions[j]
        IN (Siblings(p, q) /\ CharOrd(p.letter) < CharOrd(q.letter))
           => p.x < q.x

\* C20: in src/trie-demo.js, drawing a trie whose root has no children and
\* is no end node throws nothing and yields the position of the root at
\* depth 0 and no other; the position list of a layout is never empty (in
\* either copy), so the fallback branch for an empty list is never taken.
C20_EmptyTrieLayout ==
    last.op = "draw" =>
        /\ Len(drawnPositions) > 0
        /\ (DOMAIN trie = {<<>>} /\ ~trie[<<>>].isEnd)
           => /\ Len(drawnPositions) = 1
              /\ drawnPositions[1].node = <<>>
              /\ drawnPositions[1].depth = 0
              /\ script = "trie-demo.js" => thrown = {}

\* the empty trie has just been drawn by src/trie-demo.js
C20_Witness ==
    /\ last.op = "draw"
    /\ script = "trie-demo.js"
    /\ DOMAIN trie = {<<>>}
    /\ ~trie[<<>>].isEnd
    /\ DOMAIN nodeElementsMap = {<<>>}

\* C21: after any sequence of insert calls, the cached path of every
\* terminal node is the case-folded word that the edge characters spell from
\* the root to the node (the node's path in the trie).
C21_CachedPath ==
    \A node \in DOMAIN trie : trie[node].isEnd => trie[node].path = node

\* C22: in every state reachable through query changes, advance and retreat
\* keys, commits and clicks outside, selectedIndex is -1 or an index of an
\* item of the current suggestion list, and the keydown listener has not
\* read a missing item (which throws a TypeError).
C22_SelectedIndexInRange ==
    /\ selectedIndex = -1 \/ selectedIndex \in 0..(Len(suggestions) - 1)
    /\ last.op = "keydown" => "TypeError" \notin thrown

\* C23: the string that a commit (a click on a list item, or the commit key
\* with selectedIndex on an item) writes to the input is one of the words
\* that autocomplete returns for the current query; so with a query without
\* matches nothing is committed.
C23_CommitsIndexedWord ==
    [][(last'.op = "click" \/ EnterCommits)
       => /\ inputValue' = last'.word
          /\ last'.word \in Range(ResultWords(script, trie,
                                              Query(inputValue)))]_vars

\* C24: when the handling of a commit of a word w of the trie (by click or
\* by the commit key) has finished, every node on the path of w has a drawn
\* element, and it carries the accent fill: the redraw of the commit has
\* not erased the selection highlight of the same commit.
C24_CommitHighlightSurvives ==
    Committed =>
        \A node \in PathNodes(last.word) :
            /\ node \in DOMAIN nodeElementsMap
            /\ node \in AccentNodes

\* the listeners of the last event handled a commit: a click on a list
\* item, or the commit key with selectedIndex on an item
CommitHandled ==
    \/ last.op = "click"
    \/ last.op = "keydown" /\ last.key = "Enter" /\ last.word # <<>>

XOf(node) ==
    (CHOOSE p \in Range(drawnPositions) : p.node = node).x

\* the children of a node in the order of their edge characters
ChildrenInKeyOrder(node) ==
    LET keys == sortKeys(trie[node].children)
    IN [i \in 1..Len(keys) |-> Append(node, keys[i])]

\* C27: in every layout of src/trie-demo.js, the x of every node that has
\* children is the midpoint between the x of its first child and the x of
\* its last child in key order, whatever the widths of their subtrees.
C27_ParentCentered ==
    (script = "trie-demo.js" /\ drawnPositions # <<>>)
    => \A node \in DOMAIN trie :
           LET kids == ChildrenInKeyOrder(node)
           IN kids # <<>>
              => 2 * XOf(node) = XOf(kids[1]) + XOf(kids[Len(kids)])

\* C28: every layout holds exactly one position for every node of the trie
\* and none for anything else; the depth of a position is the number of
\* edges from the root to its node, and its letter is the character of the
\* node's incoming edge (the empty string for the root).
C28_OnePositionPerNode ==
    drawnPositions # <<>>
    => /\ \A node \in DOMAIN trie :
              Cardinality({i \in DOMAIN drawnPositions :
                              drawnPositions[i].node = node}) = 1
       /\ \A i \in DOMAIN drawnPositions :
              LET p == drawnPositions[i]
              IN /\ p.node \in DOMAIN trie
                 /\ p.depth = Len(p.node)
                 /\ p.letter = IF p.node = <<>> THEN ""
                               ELSE p.node[Len(p.node)]

\* a trie with nodes at depth 2 and a root of two children has been drawn
C28_Witness ==
    /\ last.op = "draw"
    /\ Len(drawnPositions) >= 5
    /\ \E i, j \in DOMAIN drawnPositions :
          /\ drawnPositions[i].depth = 2
          /\ drawnPositions[j].depth = 1
          /\ drawnPositions[j].letter = "b"

\* C29: in every drawing of src/trie-demo.js, whatever the trie and the
\* weights, every node circle (centre cx, cy = depth * 70, radius r) lies
\* entirely inside the viewBox of the drawing: x from minX - pad to
\* minX - pad + svgWidth, y from 0 to svgHeight.
C29_FitsViewBox ==
    (script = "trie-demo.js" /\ svg.circles # <<>>)
    => \A k \in DOMAIN svg.circles :
           LET c == svg.circles[k]
               box == svg.viewBox
           IN /\ box[1] <= c.cx - c.r
              /\ c.cx + c.r <= box[1] + box[3]
              /\ box[2] <= c.cy - c.r
              /\ c.cy + c.r <= box[2] + box[4]

\* the nodes without children
Leaves == {node \in DOMAIN trie : trie[node].children = <<>>}

\* C30: in every layout of src/trie-demo.js, two distinct nodes at the same
\* depth have x positions at least the horizontal spacing (70) apart, and
\* the leaves in lexicographic depth-first order sit at x = 0, 70, 140, ...,
\* one slot each.
C30_NoOverlap ==
    (script = "trie-demo.js" /\ drawnPositions # <<>>)
    => /\ \A i, j \in DOMAIN drawnPositions :
              LET p == drawnPositions[i]
                  q == drawnPositions[j]
              IN (i # j /\ p.depth = q.depth)
                 => \/ p.x - q.x >= horizontalSpacing
                    \/ q.x - p.x >= horizontalSpacing
       /\ \A k \in 1..Cardinality(Leaves) :
              XOf(LexSeq(Leaves)[k]) = (k - 1) * horizontalSpacing

\* src/trie-demo.js has drawn a trie of four leaves below two nodes of
\* different subtree widths
C30_Witness ==
    /\ script = "trie-demo.js"
    /\ last.op = "draw"
    /\ Cardinality(Leaves) = 4
    /\ \E i, j \in DOMAIN drawnPositions :
          /\ i # j
          /\ drawnPositions[i].depth = 1
          /\ drawnPositions[j].depth = 1
          /\ drawnPositions[i].x = 70
          /\ drawnPositions[j].x = 210

====
